---------------------------- MODULE Spec2Model ----------------------------
(***************************************************************************)
(* Model of analyzer.py: main() drives one run of the Stockfish game       *)
(* annotator: setup checks, clean_game_annotations, the engine context     *)
(* manager, the annotate_game loop over the main line, and the report.     *)
(*                                                                         *)
(* Units.  The program works in floating-point pawns and percent.  The     *)
(* model works in integers:                                                *)
(*   - evaluations and thresholds in hundredths of a pawn (0.4 pawns is    *)
(*     40), each standing for the double nearest to that decimal;          *)
(*   - swings as the doubles the program's subtraction produces, written   *)
(*     exactly with integers (see FloatOf and FloatSub);                   *)
(*   - win percentages and accuracies in ten-thousandths of a percent      *)
(*     (100% is 1000000);                                                  *)
(*   - math.exp by a fixed-point series at scale 10^6.                     *)
(***************************************************************************)
EXTENDS Integers, Sequences, FiniteSets

(***************************************************************************)
(* Bounds of the model.                                                    *)
(***************************************************************************)
\* longest main line read from the PGN file
MaxPlies == 5

(***************************************************************************)
(* Program constants (analyzer.py lines 38-47), thresholds in hundredths   *)
(* of a pawn.                                                              *)
(***************************************************************************)
DEFAULT_THRESH_INACCURACY == 40
DEFAULT_THRESH_MISTAKE == 80
DEFAULT_THRESH_BLUNDER == 180

\* ANNOTATIONS: symbol -> NAG
NAG_INACCURACY == 6
NAG_MISTAKE == 2
NAG_BLUNDER == 4
NagOf(annotation) ==
    CASE annotation = "??" -> NAG_BLUNDER
      [] annotation = "?"  -> NAG_MISTAKE
      [] annotation = "?!" -> NAG_INACCURACY

\* An optional number: Python's None, or a number x
None == [some |-> FALSE, v |-> 0]
Some(x) == [some |-> TRUE, v |-> x]

\* annotation = None (line 213)
NoAnnotation == "None"
\* the local eval_change before its first assignment
NoChange == [some |-> FALSE, v |-> [c |-> 0, d |-> 0, s |-> 0]]

\* chess.pgn.read_game returned None (line 491)
NoGame == [plies |-> 0, turn |-> "none"]

(***************************************************************************)
(* Fixed-point arithmetic for math.exp.                                    *)
(***************************************************************************)
\* (a * b) / 10^6 for 0 <= a, b <= 10^6, without leaving 32 bits
MulDivMicro(a, b) ==
    LET a1 == a \div 1000
        a0 == a % 1000
        b1 == b \div 1000
        b0 == b % 1000
    IN  a1 * b1 + ((a1 * b0 + a0 * b1) * 1000 + a0 * b0) \div 1000000

RECURSIVE Pow2(_)
Pow2(n) == IF n = 0 THEN 1 ELSE 2 * Pow2(n - 1)

\* sum over j >= k of (-r)^j / j!, at scale 10^6, given term = r^(k-1)/(k-1)!
RECURSIVE ExpSeries(_, _, _)
ExpSeries(r, k, term) ==
    IF k > 10 \/ term = 0 THEN 0
    ELSE LET t == MulDivMicro(term, r) \div k
         IN  (IF k % 2 = 0 THEN t ELSE 0 - t) + ExpSeries(r, k + 1, t)

\* math.exp(-x) at scale 10^6, for x >= 0 in millionths:
\* e^-x = 2^-n * e^-r with x = n * ln 2 + r
ExpNeg(x) ==
    LET n == x \div 693147
        r == x % 693147
    IN  IF n > 30 THEN 0
        ELSE (1000000 + ExpSeries(r, 1, 1000000)) \div Pow2(n)

(***************************************************************************)
(* centipawns_to_win_percent (line 58):                                    *)
(*   50 + 50 * (2 / (1 + exp(-0.00368208 * centipawns)) - 1)               *)
(* which is 100 / (1 + e^-kc); for c < 0 it is 100 - (the value at -c).    *)
(* math.exp raises OverflowError when its argument exceeds about 709.78,   *)
(* which is at centipawns <= -192767; beyond 100000 centipawns either way  *)
(* the result has long reached the end of its range.                       *)
(***************************************************************************)
\* the outcome of centipawns_to_win_percent when math.exp raises
OverflowError == 0 - 1

\* math.exp(-0.00368208 * centipawns) is out of the range of a double
ExpOverflows(centipawns) == centipawns <= 0 - 192767

centipawns_to_win_percent(centipawns) ==
    LET a   == IF centipawns < 0 THEN 0 - centipawns ELSE centipawns
        x   == 3682 * a + (8 * a) \div 100
        d   == 1000000 + (IF a > 100000 THEN 0 ELSE ExpNeg(x))
        q   == 1000000000 \div d
        rem == 1000000000 % d
        w   == q * 1000 + (rem * 1000) \div d
    IN  IF ExpOverflows(centipawns) THEN OverflowError
        ELSE IF centipawns < 0 THEN 1000000 - w ELSE w

(***************************************************************************)
(* calculate_move_accuracy (line 62):                                      *)
(*   loss floored at 0; 103.1668 * exp(-0.04354 * loss) - 3.1669;          *)
(*   clamped to [0, 100].                                                  *)
(***************************************************************************)
\* the same without the floor of the loss at 0
calculate_move_accuracy_NoFloor(win_percent_before, win_percent_after) ==
    LET win_percent_loss == win_percent_before - win_percent_after
        x == IF win_percent_loss < 0 THEN 0
             ELSE 4 * win_percent_loss + (354 * win_percent_loss) \div 1000
        e == IF win_percent_loss < 0 THEN 2000000 ELSE ExpNeg(x)
        accuracy == e + MulDivMicro(31668, e) - 31669
    IN  IF accuracy < 0 THEN 0
        ELSE IF accuracy > 1000000 THEN 1000000 ELSE accuracy

calculate_move_accuracy(win_percent_before, win_percent_after) ==
    LET diff == win_percent_before - win_percent_after
        win_percent_loss == IF diff < 0 THEN 0 ELSE diff
        x == 4 * win_percent_loss + (354 * win_percent_loss) \div 1000
        e == ExpNeg(x)
        accuracy == e + MulDivMicro(31668, e) - 31669
    IN  IF accuracy < 0 THEN 0
        ELSE IF accuracy > 1000000 THEN 1000000 ELSE accuracy

(***************************************************************************)
(* Binary floating point.  evaluate_position returns score / 100.0 and a   *)
(* threshold is a parsed decimal: each is the double nearest to k / 100    *)
(* for an integer k of hundredths.  A double x is written                  *)
(*     [c, d, s]   for   x = c / 100 + d / (100 * 2^s)                     *)
(* with c the decimal it is nearest to; d = 0 and s = 0 when x is c / 100  *)
(* exactly, and d odd otherwise.  A double has 53 significant bits: one    *)
(* of magnitude in [2^e, 2^(e+1)) is a multiple of 2^(e - 52).             *)
(***************************************************************************)
Abs(x) == IF x < 0 THEN 0 - x ELSE x

\* 2^n
TwoTo[n \in Nat] == IF n = 0 THEN 1 ELSE 2 * TwoTo[n - 1]

ExpUp[a \in Nat, e \in Nat] == IF 200 * TwoTo[e] <= a THEN ExpUp[a, e + 1] ELSE e

ExpDown[a \in Nat, n \in Nat] == IF a * TwoTo[n] < 100 THEN ExpDown[a, n + 1] ELSE n

\* the e with 2^e <= a / 100 < 2^(e+1), for a >= 1
Log2Hundredths[a \in Nat] == IF a >= 100 THEN ExpUp[a, 0] ELSE 0 - ExpDown[a, 0]

\* a / 100 is 2^e
IsPowerOfTwo[a \in Nat, e \in Int] ==
    IF e >= 0 THEN a = 100 * TwoTo[e] ELSE a * TwoTo[0 - e] = 100

\* the binary exponent of c / 100 + d / (100 * 2^s), c # 0, d tiny
FloatExponent[c \in Int, d \in Int] ==
    LET e == Log2Hundredths[Abs(c)]
    IN  IF IsPowerOfTwo[Abs(c), e] /\ (IF c > 0 THEN d < 0 ELSE d > 0)
        THEN e - 1 ELSE e

\* doubles near c / 100 + d / (100 * 2^s) are the multiples of 2^-FloatScale
FloatScale[c \in Int, d \in Int] == IF c = 0 THEN 0 ELSE 52 - FloatExponent[c, d]

\* x * 2^n modulo m, for 0 <= x < m <= 8000000 (eight doublings at a time
\* stay below 2^31)
DoubleMod[x \in Nat, n \in Nat, m \in Nat] ==
    IF n = 0 THEN x % m
    ELSE IF n >= 8 THEN DoubleMod[(256 * x) % m, n - 8, m]
    ELSE DoubleMod[(2 * x) % m, n - 1, m]

FloatNormal[c \in Int, d \in Int, s \in Nat] ==
    IF d = 0 THEN [c |-> c, d |-> 0, s |-> 0]
    ELSE IF s > 0 /\ d % 2 = 0 THEN FloatNormal[c, d \div 2, s - 1]
    ELSE [c |-> c, d |-> d, s |-> s]

Shift[d \in Int, n \in Nat] == IF d = 0 THEN 0 ELSE d * TwoTo[n]

\* the multiple of 2^-s nearest to k / 100, rho being the remainder of
\* |k| * 2^s by 100: rho / 100 below or (100 - rho) / 100 above (rho is never
\* 50: |k| * 2^s has too many bits)
FloatNearest[k \in Int, s \in Nat, rho \in Nat] ==
    FloatNormal[k, (IF k > 0 THEN 1 ELSE 0 - 1) * (IF rho < 50 THEN 0 - rho ELSE 100 - rho), s]

FloatAtScale[k \in Int, s \in Nat] == FloatNearest[k, s, DoubleMod[Abs(k) % 100, s, 100]]

\* k / 100.0, the double nearest to k hundredths.  A multiple of a quarter
\* is a double itself.
FloatOf[k \in Int] ==
    IF k % 25 = 0 THEN [c |-> k, d |-> 0, s |-> 0]
    ELSE FloatAtScale[k, 52 - Log2Hundredths[Abs(k)]]

Floats == [c : Int, d : Int, s : Nat]

\* -x
FloatNeg[x \in Floats] == [c |-> 0 - x.c, d |-> 0 - x.d, s |-> x.s]

Max(a, b) == IF a > b THEN a ELSE b

\* x <= y
FloatLE[x \in Floats, y \in Floats] ==
    IF x.c # y.c THEN x.c < y.c
    ELSE Shift[x.d, Max(x.s, y.s) - x.s] <= Shift[y.d, Max(x.s, y.s) - y.s]

\* c / 100 + n / (100 * 2^S), |c| = a, rounded to a multiple of 2^-(S - g):
\* the g low bits of the significand, low, are rounded away, to nearest,
\* a tie to the even neighbour (bit is the last bit that stays)
FloatRoundBits[c \in Int, n \in Int, S \in Nat, g \in Nat, w \in Nat] ==
    LET sg   == IF c > 0 THEN 1 ELSE 0 - 1
        low  == w % TwoTo[g]
        bit  == (w \div TwoTo[g]) % 2
        half == TwoTo[g - 1]
    IN  IF low < half \/ (low = half /\ bit = 0)
        THEN FloatNormal[c, sg * (sg * n - 100 * low), S]
        ELSE FloatNormal[c, sg * (sg * n + 100 * (TwoTo[g] - low)), S]

FloatRoundAt[c \in Int, n \in Int, S \in Nat, g \in Nat, M \in Nat] ==
    FloatRoundBits[c, n, S, g,
        ((DoubleMod[Abs(c) % M, S, M] + (IF c > 0 THEN n ELSE 0 - n)) % M) \div 100]

\* c / 100 + n / (100 * 2^S) as a double whose grid is 2^-sr
FloatRound[c \in Int, n \in Int, S \in Nat, sr \in Nat] ==
    IF c = 0 \/ sr >= S THEN FloatNormal[c, n, S]
    ELSE FloatRoundAt[c, n, S, S - sr, 100 * TwoTo[S - sr + 1]]

FloatSubAt[p \in Floats, q \in Floats, S \in Nat, n \in Int] ==
    FloatRound[p.c - q.c, n, S, FloatScale[p.c - q.c, n]]

FloatSubScaled[p \in Floats, q \in Floats, S \in Nat] ==
    FloatSubAt[p, q, S, Shift[p.d, S - p.s] - Shift[q.d, S - q.s]]

\* p - q, rounded to nearest, ties to even.  The exact difference is a
\* multiple of 2^-S, S the finer of the two grids; when the result's grid is
\* coarser, the low bits of its significand are rounded away.  The
\* difference of two multiples of a quarter is exact.
FloatSub[p \in Floats, q \in Floats] ==
    IF p.d = 0 /\ q.d = 0 THEN [c |-> p.c - q.c, d |-> 0, s |-> 0]
    ELSE FloatSubScaled[p, q, Max(FloatScale[p.c, p.d], FloatScale[q.c, q.d])]

(***************************************************************************)
(* The oracle: what one engine.analyse call can produce.  A score is what  *)
(* info["score"].white() returns: Cp(value), Mate(value) or MateGiven      *)
(* (python-chess: MateGiven is a Score that is neither a Cp nor a Mate);   *)
(* Raise is any exception out of engine.analyse.                           *)
(***************************************************************************)
Cp(v) == [kind |-> "cp", value |-> v]
Mate(m) == [kind |-> "mate", value |-> m]
MateGiven == [kind |-> "mategiven", value |-> 0]
Raise == [kind |-> "raise", value |-> 0]

\* centipawn scores the oracle answers with: multiples of a quarter pawn,
\* whose evaluations and swings are doubles without rounding (the runs of
\* SpecReplay and SpecBoundary have the other kind)
CpValues == {0, 50, 150}
Scores == {Cp(v) : v \in CpValues} \cup {MateGiven}
AnalyseOutcomes == Scores \cup {Raise}

\* the evaluations of the end-to-end example: 0.0, 0.2, 0.1, -1.0, -3.0
ExampleEvals == <<0, 20, 10, -100, -300>>
ExampleScores == {Cp(ExampleEvals[i]) : i \in 1..Len(ExampleEvals)}

\* --inaccuracy / --mistake / --blunder as parsed (any three floats)
Thresholds(i, m, b) == [inaccuracy |-> i, mistake |-> m, blunder |-> b]
DefaultThresholds ==
    Thresholds(DEFAULT_THRESH_INACCURACY, DEFAULT_THRESH_MISTAKE, DEFAULT_THRESH_BLUNDER)
ThresholdConfigs ==
    { DefaultThresholds,
      Thresholds(50, 100, 150),
      Thresholds(75, 100, 125),
      Thresholds(100, 50, 150),
      Thresholds(0, 50, 150),
      Thresholds(0 - 50, 50, 150) }

\* a game as read from the PGN: length of the main line, side to move at the root
Players == {"white", "black"}
Games == [plies : 0..MaxPlies, turn : Players]

NAGS == {NAG_INACCURACY, NAG_MISTAKE, NAG_BLUNDER}

VARIABLES
    pc,              \* where main() is
    args,            \* parsed thresholds
    game,            \* the game read, NoGame before
    engine,          \* "unopened", "open", "closed"
    engine_opens,    \* number of popen_uci calls that succeeded
    queries,         \* number of engine.analyse calls issued
    eval_script,     \* <<>>: the oracle answers freely; else its answer per position
    node,            \* annotate_game: index of node in the main line (0 = root)
    board_turn,      \* annotate_game: board.turn
    move_number,     \* annotate_game: move_number
    stats,           \* annotate_game: stats
    annotated_moves, \* annotate_game: annotated_moves
    eval_before,     \* locals of the last loop iteration
    eval_after,
    move_accuracy,
    eval_change,
    annotation,
    raised,          \* where an exception was raised, "none" if none
    report_written,
    pgn_written,
    exit_code,       \* None while running, then Some(0) or Some(1)
    report,          \* the figures generate_report puts in the report
    summary,         \* the figures of the quick summary printed at the end
    fn_name,         \* a function called on its own: its name, "none" in a run
    fn_args,         \*   its arguments
    fn_result,       \*   and what it returned, None before it returns
    input_pgn,       \* what the game in the input file carries besides its moves
    tree,            \* the nodes of the game read: tree[1] is the root, tree[i + 1]
                     \*   the node of ply i of the main line
    lex_pc,          \* lexicon.py: position in add_lexicon_entries, "none" when
                     \*   lexicon.py is not running
    md_file,         \*   the markdown file on disk, a sequence of characters
    md_original,     \*   the markdown file as it was when lexicon.py started
    bak_file,        \*   the file <file_path>.bak on disk, if it exists
    frontmatter_text,   \* locals of add_lexicon_entries
    remaining_content,
    new_entries

vars == <<pc, args, game, engine, engine_opens, queries, eval_script, node,
          board_turn, move_number, stats, annotated_moves, eval_before,
          eval_after, move_accuracy, eval_change, annotation, raised,
          report_written, pgn_written, exit_code, report, summary,
          fn_name, fn_args, fn_result, input_pgn, tree,
          lex_pc, md_file, md_original, bak_file, frontmatter_text,
          remaining_content, new_entries>>

out_vars == <<report, summary>>
fn_vars == <<fn_name, fn_args, fn_result>>
tree_vars == <<input_pgn, tree>>
lex_vars == <<lex_pc, md_file, md_original, bak_file, frontmatter_text,
              remaining_content, new_entries>>

main_vars == <<args, game, engine, engine_opens, eval_script, report_written,
               pgn_written, exit_code>>
loop_vars == <<node, board_turn, move_number, stats, annotated_moves, eval_before,
               eval_after, move_accuracy, eval_change, annotation, queries>>

(***************************************************************************)
(* evaluate_position (lines 73-81) on the score the oracle returned.       *)
(***************************************************************************)
evaluate_position(score) ==
    IF score.kind = "cp" THEN Some(score.value)
    ELSE IF score.kind = "mate"
         THEN (IF score.value > 0 THEN Some(10000) ELSE Some(0 - 10000))
         ELSE None

(***************************************************************************)
(* Pieces of the annotate_game loop body.                                  *)
(***************************************************************************)
\* line 140-143
InitialPlayerStats ==
    [nags |-> [n \in NAGS |-> 0], moves |-> 0, total_accuracy |-> 0, accuracy_count |-> 0]
InitialStats ==
    [white |-> InitialPlayerStats, black |-> InitialPlayerStats, total_moves |-> 0]

\* line 156
CurrentPlayer(turn) == IF turn = "white" THEN "white" ELSE "black"

Opponent(turn) == IF turn = "white" THEN "black" ELSE "white"

\* lines 159-160
CountMove_White(s, current_player) ==
    [s EXCEPT !["white"].moves = @ + 1, !.total_moves = @ + 1]
CountMove(s, current_player) ==
    [s EXCEPT ![current_player].moves = @ + 1, !.total_moves = @ + 1]

\* lines 166-172 and 184-190: win percentage from the mover's perspective
WinPercent(eval, current_player) ==
    IF eval # None
    THEN Some(centipawns_to_win_percent(
                  IF current_player = "black" THEN 0 - eval.v ELSE eval.v))
    ELSE None

\* lines 172 and 190 raise
WinPercentRaises(eval, current_player) ==
    eval # None /\ ExpOverflows(IF current_player = "black" THEN 0 - eval.v ELSE eval.v)

\* lines 193-195
MoveAccuracy(win_percent_before, win_percent_after) ==
    IF win_percent_before # None /\ win_percent_after # None
    THEN Some(calculate_move_accuracy(win_percent_before.v, win_percent_after.v))
    ELSE None

\* lines 194-197: the accuracy joins the mover's sum and count only when defined
AddAccuracy_CountAlways(s, current_player, accuracy) ==
    IF accuracy # None
    THEN [s EXCEPT ![current_player].total_accuracy = @ + accuracy.v,
                   ![current_player].accuracy_count = @ + 1]
    ELSE [s EXCEPT ![current_player].accuracy_count = @ + 1]
AddAccuracy_SumOnly(s, current_player, accuracy) ==
    IF accuracy # None
    THEN [s EXCEPT ![current_player].total_accuracy = @ + accuracy.v]
    ELSE s
AddAccuracy(s, current_player, accuracy) ==
    IF accuracy # None
    THEN [s EXCEPT ![current_player].total_accuracy = @ + accuracy.v,
                   ![current_player].accuracy_count = @ + 1]
    ELSE s

\* line 203
PastOpening_First(mn) == mn > 1
PastOpening_Third(mn) == mn > 3
PastOpening(mn) == mn > 2

\* lines 208-211
EvalChange(current_player, before, after) ==
    IF current_player = "white"
    THEN FloatSub[FloatOf[after], FloatOf[before]]
    ELSE FloatSub[FloatOf[before], FloatOf[after]]

\* lines 213-227
Classify(change, th) ==
    IF FloatLE[change, FloatNeg[FloatOf[th.blunder]]] THEN "??"
    ELSE IF FloatLE[change, FloatNeg[FloatOf[th.mistake]]] THEN "?"
    ELSE IF FloatLE[change, FloatNeg[FloatOf[th.inaccuracy]]] THEN "?!"
    ELSE NoAnnotation

\* lines 217-218, 221-222, 225-226
CountAnnotation_Opponent(s, current_player, a) ==
    IF a # NoAnnotation
    THEN [s EXCEPT ![Opponent(current_player)].nags[NagOf(a)] = @ + 1] ELSE s
CountAnnotation(s, current_player, a) ==
    IF a # NoAnnotation THEN [s EXCEPT ![current_player].nags[NagOf(a)] = @ + 1] ELSE s

\* line 233: current_player.capitalize()
Capitalize(current_player) == IF current_player = "white" THEN "White" ELSE "Black"

\* lines 231-238; the move is named by its place in the main line
AnnotatedMove(mn, current_player, ply, a, change, accuracy) ==
    [move_number |-> mn, player |-> Capitalize(current_player), move |-> ply,
     annotation |-> a, eval_change |-> change, move_accuracy |-> accuracy]

\* lines 242-243
NextMoveNumber(mn, turn_after_push) ==
    IF turn_after_push = "white" THEN mn + 1 ELSE mn

\* what engine.analyse can produce for a position of the main line (position 1
\* is the root, position i + 1 the one after ply i)
OracleAnswers(position) ==
    IF eval_script = <<>>
    THEN AnalyseOutcomes
    ELSE {eval_script[position], Raise}

(***************************************************************************)
(* The game tree: what a node carries besides its move.  comment: the node *)
(* has a comment; nags: its annotation marks; side: the number of          *)
(* variations it has besides the main one.                                 *)
(***************************************************************************)
BareNode == [comment |-> FALSE, nags |-> {}, side |-> 0]

\* the games an input file can hold: bare; every move marked twice (! and ??)
\* and commented; or every second node marked and commented, and an
\* alternative to every move of the main line
InputMarks == {"bare", "marked", "branched"}
InputNode(marks, k, plies) ==
    IF marks = "marked"
    THEN [comment |-> TRUE, nags |-> IF k > 1 THEN {1, NAG_BLUNDER} ELSE {}, side |-> 0]
    ELSE IF marks = "branched"
    THEN [comment |-> (k % 2 = 0),
          nags |-> IF k % 2 = 0 THEN {NAG_MISTAKE} ELSE {},
          side |-> IF k <= plies THEN 1 ELSE 0]
    ELSE BareNode
InputTree(plies, marks) == [k \in 1..(plies + 1) |-> InputNode(marks, k, plies)]

\* lines 113-118 on one node
clean_node_KeepNags(n) == [n EXCEPT !.comment = FALSE]
clean_node(n) == [n EXCEPT !.comment = FALSE, !.nags = {}]

\* lines 121-125 on one node: node.variations = [main_variation]
keep_mainline_only(n) == [n EXCEPT !.side = 0]

\* lines 107-130
clean_game_annotations(t) == [k \in DOMAIN t |-> keep_mainline_only(clean_node(t[k]))]

\* lines 200 and 216-227: the node's marks are cleared, then the mark of the
\* severity, if any, is added
SetNag(n, a) == [n EXCEPT !.nags = IF a # NoAnnotation THEN {NagOf(a)} ELSE {}]

(***************************************************************************)
(* generate_report (lines 277-335) and the quick summary of main (lines    *)
(* 532-541): the figures computed from stats.  Averages and rates are in   *)
(* ten-thousandths of a percent.                                           *)
(***************************************************************************)
\* a / b in Python: ZeroDivisionError when b is 0
ZeroDivisionError == [some |-> FALSE, v |-> 0 - 1]
PyDiv(a, b) == IF b = 0 THEN ZeroDivisionError ELSE Some(a \div b)

\* line 288, 318-319: sum(player_stats[nag] for nag in [6, 2, 4])
ErrorCount(ps) == ps.nags[NAG_INACCURACY] + ps.nags[NAG_MISTAKE] + ps.nags[NAG_BLUNDER]

\* lines 285-310, one player's section: the error rate is printed only when
\* the player has errors (else "No errors found"); the average accuracy is
\* printed as "N/A" (None here) when no accuracy was recorded
PlayerSection(ps) ==
    [error_rate |->
        IF ErrorCount(ps) > 0
        THEN (IF ps.moves > 0 THEN PyDiv(ErrorCount(ps) * 1000000, ps.moves) ELSE Some(0))
        ELSE None,
     average_accuracy |->
        IF ps.accuracy_count > 0
        THEN PyDiv(ps.total_accuracy, ps.accuracy_count)
        ELSE None]

\* lines 315-316 and 538-539: ... if accuracy_count > 0 else 0
AccuracyOrZero(ps) ==
    IF ps.accuracy_count > 0 THEN PyDiv(ps.total_accuracy, ps.accuracy_count) ELSE Some(0)

\* lines 313-335, the comparison, shown when both players have moved
Comparison(s) ==
    IF s.white.moves > 0 /\ s.black.moves > 0
    THEN [shown |-> TRUE,
          white |-> [accuracy |-> AccuracyOrZero(s.white),
                     error_rate |-> PyDiv(ErrorCount(s.white) * 1000000, s.white.moves)],
          black |-> [accuracy |-> AccuracyOrZero(s.black),
                     error_rate |-> PyDiv(ErrorCount(s.black) * 1000000, s.black.moves)]]
    ELSE [shown |-> FALSE,
          white |-> [accuracy |-> None, error_rate |-> None],
          black |-> [accuracy |-> None, error_rate |-> None]]

NoReport ==
    [made |-> FALSE, total_moves |-> 0,
     white |-> [error_rate |-> None, average_accuracy |-> None],
     black |-> [error_rate |-> None, average_accuracy |-> None],
     comparison |-> [shown |-> FALSE,
                     white |-> [accuracy |-> None, error_rate |-> None],
                     black |-> [accuracy |-> None, error_rate |-> None]]]

generate_report(s) ==
    [made |-> TRUE, total_moves |-> s.total_moves,
     white |-> PlayerSection(s.white),
     black |-> PlayerSection(s.black),
     comparison |-> Comparison(s)]

NoSummary ==
    [made |-> FALSE, total_moves |-> 0, total_errors |-> 0,
     white |-> None, black |-> None]

\* lines 532-541
QuickSummary(s) ==
    [made |-> TRUE, total_moves |-> s.total_moves,
     total_errors |-> ErrorCount(s.white) + ErrorCount(s.black),
     white |-> AccuracyOrZero(s.white),
     black |-> AccuracyOrZero(s.black)]

\* some division of the report, or of the summary, was a division by zero
ReportRaises(r) ==
    \E p \in Players :
       \/ r[p].error_rate = ZeroDivisionError
       \/ r[p].average_accuracy = ZeroDivisionError
       \/ r.comparison[p].accuracy = ZeroDivisionError
       \/ r.comparison[p].error_rate = ZeroDivisionError
SummaryRaises(q) == \E p \in Players : q[p] = ZeroDivisionError

(***************************************************************************)
(* Initial state: main() after parse_arguments (line 461).                 *)
(***************************************************************************)
InitRun ==
    /\ pc = "check_input"
    /\ game = NoGame
    /\ engine = "unopened"
    /\ engine_opens = 0
    /\ queries = 0
    /\ node = 0
    /\ board_turn = "none"
    /\ move_number = 0
    /\ stats = InitialStats
    /\ annotated_moves = <<>>
    /\ eval_before = None
    /\ eval_after = None
    /\ move_accuracy = None
    /\ eval_change = NoChange
    /\ annotation = NoAnnotation
    /\ raised = "none"
    /\ report_written = FALSE
    /\ pgn_written = FALSE
    /\ exit_code = None
    /\ report = NoReport
    /\ summary = NoSummary
    /\ tree = <<>>

\* no function is called on its own during a run of main(), and lexicon.py
\* is another program
NoFile == [exists |-> FALSE, content |-> <<>>]
NoText == [some |-> FALSE, v |-> <<>>]
LexIdle ==
    /\ lex_pc = "none"
    /\ md_file = <<>>
    /\ md_original = <<>>
    /\ bak_file = NoFile
    /\ frontmatter_text = NoText
    /\ remaining_content = <<>>
    /\ new_entries = <<>>
NoCall ==
    /\ fn_name = "none"
    /\ fn_args = <<>>
    /\ fn_result = None
    /\ LexIdle

Init ==
    /\ InitRun
    /\ NoCall
    /\ input_pgn = "bare"
    /\ args \in ThresholdConfigs
    /\ eval_script = <<>>

(***************************************************************************)
(* main(), lines 475-550.                                                  *)
(***************************************************************************)
\* lines 477-479: sys.exit(1) when the input file does not exist
CheckInputFile ==
    /\ UNCHANGED lex_vars
    /\ UNCHANGED tree_vars
    /\ UNCHANGED out_vars
    /\ UNCHANGED fn_vars
    /\ pc = "check_input"
    /\ \E exists \in BOOLEAN :
         IF exists
         THEN pc' = "check_engine" /\ exit_code' = exit_code
         ELSE pc' = "exit" /\ exit_code' = Some(1)
    /\ UNCHANGED <<args, game, engine, engine_opens, eval_script, report_written,
                   pgn_written, raised>>
    /\ UNCHANGED loop_vars

\* lines 482-485: sys.exit(1) when the engine binary does not exist
CheckEngineBinary ==
    /\ UNCHANGED lex_vars
    /\ UNCHANGED tree_vars
    /\ UNCHANGED out_vars
    /\ UNCHANGED fn_vars
    /\ pc = "check_engine"
    /\ \E exists \in BOOLEAN :
         IF exists
         THEN pc' = "read_game" /\ exit_code' = exit_code
         ELSE pc' = "exit" /\ exit_code' = Some(1)
    /\ UNCHANGED <<args, game, engine, engine_opens, eval_script, report_written,
                   pgn_written, raised>>
    /\ UNCHANGED loop_vars

\* lines 487-493: read_game gives a game (its main line may be empty) or None
ReadGame ==
    /\ UNCHANGED lex_vars
    /\ UNCHANGED out_vars
    /\ UNCHANGED fn_vars
    /\ pc = "read_game"
    /\ \E readable \in BOOLEAN, g \in Games \cup {NoGame} :
         IF readable
         THEN /\ g # NoGame /\ eval_script # <<>> => g.plies + 1 <= Len(eval_script)
              /\ game' = g
              /\ tree' = IF g = NoGame THEN <<>> ELSE InputTree(g.plies, input_pgn)
              /\ raised' = raised
              /\ IF g = NoGame
                 THEN pc' = "exit" /\ exit_code' = Some(1)
                 ELSE pc' = "clean" /\ exit_code' = exit_code
         ELSE \* open() or the decoding raises (the path is a directory, the
              \* bytes are not UTF-8): control passes to line 546
              /\ g = NoGame
              /\ game' = game
              /\ tree' = tree
              /\ raised' = "read_game"
              /\ pc' = "except"
              /\ exit_code' = exit_code
    /\ UNCHANGED <<args, engine, engine_opens, eval_script, report_written,
                   pgn_written, input_pgn>>
    /\ UNCHANGED loop_vars

\* lines 495-501: clean_game_annotations
CleanGame ==
    /\ UNCHANGED lex_vars
    /\ UNCHANGED out_vars
    /\ UNCHANGED fn_vars
    /\ pc = "clean"
    /\ pc' = "popen"
    /\ tree' = clean_game_annotations(tree)
    /\ UNCHANGED input_pgn
    /\ UNCHANGED <<raised>>
    /\ UNCHANGED main_vars
    /\ UNCHANGED loop_vars

\* line 504: popen_uci starts the engine or raises; on success annotate_game
\* is entered and sets up its locals (lines 134-145)
OpenEngine ==
    /\ UNCHANGED lex_vars
    /\ UNCHANGED tree_vars
    /\ UNCHANGED out_vars
    /\ UNCHANGED fn_vars
    /\ pc = "popen"
    /\ \E started \in BOOLEAN :
         IF started
         THEN /\ engine' = "open"
              /\ engine_opens' = engine_opens + 1
              /\ pc' = "annotate"
              /\ board_turn' = game.turn
              /\ move_number' = 1
              /\ stats' = InitialStats
              /\ annotated_moves' = <<>>
              /\ raised' = raised
         ELSE /\ pc' = "except"
              /\ raised' = "popen"
              /\ UNCHANGED <<engine, engine_opens, board_turn, move_number, stats,
                             annotated_moves>>
    /\ UNCHANGED <<args, game, eval_script, report_written, pgn_written, exit_code,
                   node, eval_before, eval_after, move_accuracy, eval_change,
                   annotation, queries>>

(***************************************************************************)
(* annotate_game: one iteration of the loop, lines 150-243.  The three     *)
(* engine queries are evaluate_position (163), get_top_moves (175) and     *)
(* evaluate_position (181); an exception out of one of them leaves         *)
(* annotate_game, whose locals are gone with its frame.  The list that     *)
(* get_top_moves returns is never read (top_move_list, line 175), so that  *)
(* query is modelled by whether it returns or raises.                      *)
(***************************************************************************)
\* the locals of annotate_game, as they are before it is entered
NoFrame ==
    /\ node' = 0
    /\ board_turn' = "none"
    /\ move_number' = 0
    /\ eval_before' = None
    /\ eval_after' = None
    /\ move_accuracy' = None
    /\ eval_change' = NoChange
    /\ annotation' = NoAnnotation

AnnotatePly ==
    /\ UNCHANGED lex_vars
    /\ UNCHANGED out_vars
    /\ UNCHANGED fn_vars
    /\ pc = "annotate"
    /\ node < game.plies
    /\ \E before \in OracleAnswers(node + 1), top \in {"ok", "raise"},
          after \in OracleAnswers(node + 2) :
            LET ply == node + 1
                current_player == CurrentPlayer(board_turn)
                counted == CountMove(stats, current_player)
                eb == evaluate_position(before)
                ea == evaluate_position(after)
                win_percent_before == WinPercent(eb, current_player)
                win_percent_after == WinPercent(ea, current_player)
                acc == MoveAccuracy(win_percent_before, win_percent_after)
                with_acc == AddAccuracy(counted, current_player, acc)
                classified == PastOpening(move_number) /\ eb # None /\ ea # None
                change == IF classified
                          THEN Some(EvalChange(current_player, eb.v, ea.v))
                          ELSE NoChange
                a == IF classified THEN Classify(change.v, args) ELSE NoAnnotation
                turn_after == Opponent(board_turn)
            IN  IF before = Raise
                THEN /\ queries' = queries + 1
                     /\ raised' = "eval_before"
                     /\ pc' = "with_exit"
                     /\ tree' = tree
                     /\ stats' = InitialStats
                     /\ annotated_moves' = <<>>
                     /\ NoFrame
                ELSE IF WinPercentRaises(eb, current_player)
                THEN /\ queries' = queries + 1
                     /\ raised' = "win_percent"
                     /\ pc' = "with_exit"
                     /\ tree' = tree
                     /\ stats' = InitialStats
                     /\ annotated_moves' = <<>>
                     /\ NoFrame
                ELSE IF top = "raise"
                THEN /\ queries' = queries + 2
                     /\ raised' = "top_moves"
                     /\ pc' = "with_exit"
                     /\ tree' = tree
                     /\ stats' = InitialStats
                     /\ annotated_moves' = <<>>
                     /\ NoFrame
                ELSE IF after = Raise
                THEN /\ queries' = queries + 3
                     /\ raised' = "eval_after"
                     /\ pc' = "with_exit"
                     /\ tree' = tree
                     /\ stats' = InitialStats
                     /\ annotated_moves' = <<>>
                     /\ NoFrame
                ELSE IF WinPercentRaises(ea, current_player)
                THEN /\ queries' = queries + 3
                     /\ raised' = "win_percent"
                     /\ pc' = "with_exit"
                     /\ tree' = tree
                     /\ stats' = InitialStats
                     /\ annotated_moves' = <<>>
                     /\ NoFrame
                ELSE /\ stats' = CountAnnotation(with_acc, current_player, a)
                     /\ queries' = queries + 3
                     /\ eval_before' = eb
                     /\ eval_after' = ea
                     /\ move_accuracy' = acc
                     \* eval_change and annotation are assigned inside the
                     \* block of lines 203-205 only: on a ply that is not
                     \* classified they keep what the last classified ply left
                     /\ eval_change' = IF classified THEN change ELSE eval_change
                     /\ annotation' = IF classified THEN a ELSE annotation
                     /\ tree' = [tree EXCEPT ![ply + 1] = SetNag(@, a)]
                     /\ annotated_moves' =
                          IF a # NoAnnotation
                          THEN Append(annotated_moves,
                                      AnnotatedMove(move_number, current_player, ply,
                                                    a, change, acc))
                          ELSE annotated_moves
                     /\ board_turn' = turn_after
                     /\ node' = ply
                     /\ move_number' = NextMoveNumber(move_number, turn_after)
                     /\ raised' = raised
                     /\ pc' = pc
    /\ UNCHANGED main_vars
    /\ UNCHANGED input_pgn

\* line 150 false, line 245: the main line is exhausted, annotate_game returns
\* stats and annotated_moves to main (line 505)
AnnotateReturn ==
    /\ UNCHANGED lex_vars
    /\ UNCHANGED tree_vars
    /\ UNCHANGED out_vars
    /\ UNCHANGED fn_vars
    /\ pc = "annotate"
    /\ node = game.plies
    /\ pc' = "with_exit"
    /\ NoFrame
    /\ UNCHANGED <<raised, stats, annotated_moves, queries>>
    /\ UNCHANGED main_vars

\* lines 504-508: leaving the with block closes the engine, on return and on
\* an exception alike
EngineAfterWith_ReturnOnly(e, exception) == IF exception = "none" THEN "closed" ELSE e
EngineAfterWith(e, exception) == "closed"

WithExit ==
    /\ UNCHANGED lex_vars
    /\ UNCHANGED tree_vars
    /\ UNCHANGED out_vars
    /\ UNCHANGED fn_vars
    /\ pc = "with_exit"
    /\ engine' = EngineAfterWith(engine, raised)
    /\ pc' = IF raised = "none" THEN "report" ELSE "except"
    /\ UNCHANGED <<args, game, engine_opens, eval_script, report_written,
                   pgn_written, exit_code, raised>>
    /\ UNCHANGED loop_vars

\* lines 510-541: the report is generated, the report and the annotated game
\* are written and the quick summary is printed; an error in either write,
\* or a division by zero, is an exception
WriteOutputs ==
    /\ UNCHANGED lex_vars
    /\ UNCHANGED tree_vars
    /\ UNCHANGED fn_vars
    /\ pc = "report"
    /\ LET r == generate_report(stats)
           q == QuickSummary(stats)
       IN  IF ReportRaises(r)
           THEN /\ raised' = "generate_report"
                /\ pc' = "except"
                /\ UNCHANGED <<report, summary, report_written, pgn_written, exit_code>>
           ELSE \E failure \in {"none", "report", "pgn"} :
                /\ report' = r
                /\ report_written' = (failure # "report")
                /\ pgn_written' = (failure = "none")
                /\ IF failure # "none"
                   THEN /\ raised' = failure
                        /\ pc' = "except"
                        /\ UNCHANGED <<summary, exit_code>>
                   ELSE IF SummaryRaises(q)
                   THEN /\ raised' = "summary"
                        /\ pc' = "except"
                        /\ UNCHANGED <<summary, exit_code>>
                   ELSE /\ raised' = failure
                        /\ summary' = q
                        /\ pc' = "exit"
                        /\ exit_code' = Some(0)
    /\ UNCHANGED <<args, game, engine, engine_opens, eval_script>>
    /\ UNCHANGED loop_vars

\* lines 543-550: every exception ends in sys.exit(1)
HandleException ==
    /\ UNCHANGED lex_vars
    /\ UNCHANGED tree_vars
    /\ UNCHANGED out_vars
    /\ UNCHANGED fn_vars
    /\ pc = "except"
    /\ pc' = "exit"
    /\ exit_code' = Some(1)
    /\ UNCHANGED <<args, game, engine, engine_opens, eval_script, report_written,
                   pgn_written, raised>>
    /\ UNCHANGED loop_vars

Next ==
    \/ CheckInputFile
    \/ CheckEngineBinary
    \/ ReadGame
    \/ CleanGame
    \/ OpenEngine
    \/ AnnotatePly
    \/ AnnotateReturn
    \/ WithExit
    \/ WriteOutputs
    \/ HandleException

Spec == Init /\ [][Next]_vars

(***************************************************************************)
(* The same run against an oracle whose answer is fixed per position: the  *)
(* setting of the end-to-end example, default thresholds and evaluations   *)
(* drawn from those of the example.                                        *)
(***************************************************************************)
InitReplay ==
    /\ InitRun
    /\ NoCall
    /\ input_pgn = "bare"
    /\ args = DefaultThresholds
    /\ eval_script \in [1..Len(ExampleEvals) -> ExampleScores]

SpecReplay == InitReplay /\ [][Next]_vars

(***************************************************************************)
(* Runs at a threshold boundary: the oracle answers 0.7 or 0.3 at every    *)
(* position, so that a swing is 0, or 0.4 pawns one way or the other: the  *)
(* default Inaccuracy threshold exactly.                                   *)
(***************************************************************************)
BoundaryScores == {Cp(70), Cp(30)}

InitBoundary ==
    /\ InitRun
    /\ NoCall
    /\ input_pgn = "bare"
    /\ args = DefaultThresholds
    /\ eval_script \in [1..(MaxPlies + 1) -> BoundaryScores]

SpecBoundary == InitBoundary /\ [][Next]_vars

(***************************************************************************)
(* Vocabulary of the properties.                                           *)
(***************************************************************************)
\* the player who moves ply i (1-indexed) of the game
Mover(i) == IF i % 2 = 1 THEN game.turn ELSE Opponent(game.turn)

\* the full-move number of ply i, counted from 1 at the root
FullMove(i) == IF game.turn = "white" THEN (i + 1) \div 2 ELSE (i \div 2) + 1

\* the loop is at its head having completed ply number node
PlyDone == pc = "annotate" /\ node >= 1

\* a step that completes a ply
CompletesPly == pc = "annotate" /\ pc' = "annotate" /\ node' = node + 1

BothDefined == eval_before # None /\ eval_after # None

\* annotate_game has returned to main
Returned == pc \in {"with_exit", "report", "except", "exit"} /\ engine_opens = 1
            /\ raised \in {"none", "report", "pgn"}

SeverityCount(p) ==
    stats[p].nags[NAG_INACCURACY] + stats[p].nags[NAG_MISTAKE] + stats[p].nags[NAG_BLUNDER]

\* 0 < inaccuracy < mistake < blunder
ValidThresholds(th) ==
    0 < th.inaccuracy /\ th.inaccuracy < th.mistake /\ th.mistake < th.blunder

\* the run of the end-to-end example: four plies, White to move first, the
\* oracle answering 0.0, 0.2, 0.1, -1.0, -3.0, default thresholds
ExampleRun ==
    /\ game = [plies |-> 4, turn |-> "white"]
    /\ eval_script = [i \in 1..Len(ExampleEvals) |-> Cp(ExampleEvals[i])]
    /\ args = DefaultThresholds

ExampleDone == ExampleRun /\ pc = "with_exit" /\ raised = "none"

\* the ply just completed is past the opening and has both its evaluations
Classified == PlyDone /\ FullMove(node) > 2 /\ BothDefined

\* the ply just completed has an entry in annotated_moves
ThisPlyEntry ==
    Len(annotated_moves) >= 1 /\ annotated_moves[Len(annotated_moves)].move = node

\* the severity the ply just completed was flagged with, if any
ThisPlyAnnotation ==
    IF ThisPlyEntry THEN annotated_moves[Len(annotated_moves)].annotation
    ELSE NoAnnotation

\* the swing of the ply just completed, from its mover's perspective, in
\* hundredths of a pawn
Swing ==
    IF Mover(node) = "white" THEN eval_after.v - eval_before.v
    ELSE eval_before.v - eval_after.v

\* the last entry of annotated_moves is the ply just completed, with its severity
LastEntryIsThisPly ==
    /\ Len(annotated_moves) >= 1
    /\ LET e == annotated_moves[Len(annotated_moves)]
       IN  /\ e.move = node
           /\ e.annotation = annotation
           /\ e.player = Capitalize(Mover(node))
    /\ stats[Mover(node)].nags[NagOf(annotation)] >= 1

(***************************************************************************)
(* C1.  As stated: every ply with ply index i > 2 whose two evaluations    *)
(* are defined is classified, and a flagged ply is counted for its mover   *)
(* and appended; the 4-ply example yields exactly two entries, ply 3 a     *)
(* Mistake and ply 4 a Blunder, both move counts 2.                        *)
(***************************************************************************)
C1_ClassifiedAfterTwoPlies ==
    /\ (PlyDone /\ node > 2 /\ BothDefined) =>
          /\ eval_change.some /\ eval_change.v.c = Swing
          /\ ThisPlyAnnotation = annotation
          /\ (annotation # NoAnnotation => LastEntryIsThisPly)
    /\ ExampleDone =>
          /\ Len(annotated_moves) = 2
          /\ annotated_moves[1].move = 3 /\ annotated_moves[1].annotation = "?"
          /\ annotated_moves[2].move = 4 /\ annotated_moves[2].annotation = "??"
          /\ stats.white.moves = 2 /\ stats.black.moves = 2

(***************************************************************************)
(* C1, amended.  Every ply past the first two full moves (move_number > 2) *)
(* whose two evaluations are defined is classified, and no other ply is;   *)
(* a flagged ply is counted for its mover and appended; the 4-ply example  *)
(* yields no entry at all, both move counts 2.                             *)
(***************************************************************************)
C1_ClassifiedAfterTwoMoves ==
    /\ Classified =>
          /\ eval_change.some /\ eval_change.v.c = Swing
          /\ ThisPlyAnnotation = annotation
          /\ (annotation # NoAnnotation => LastEntryIsThisPly)
    /\ (PlyDone /\ ~Classified) =>
          /\ ~ThisPlyEntry
          /\ tree[node + 1].nags = {}
          /\ FullMove(node) <= 2 => eval_change = NoChange
    /\ ExampleDone =>
          /\ annotated_moves = <<>>
          /\ stats.white.moves = 2 /\ stats.black.moves = 2

\* the example has run to the end of its main line
C1_Witness ==
    /\ ExampleDone
    /\ stats.total_moves = 4
    /\ stats.white.accuracy_count = 2 /\ stats.black.accuracy_count = 2

(***************************************************************************)
(* C2.  Plies 1 and 2 never produce an AnnotatedMove and never increment   *)
(* a severity counter, whatever their swing; they are evaluated and        *)
(* counted in the move counts.                                             *)
(***************************************************************************)
C2_FirstTwoPliesNeverAnnotated ==
    /\ \A k \in 1..Len(annotated_moves) : annotated_moves[k].move > 2
    /\ (PlyDone /\ node <= 2) =>
          /\ annotation = NoAnnotation
          /\ eval_change = NoChange
          /\ annotated_moves = <<>>
          /\ SeverityCount("white") = 0 /\ SeverityCount("black") = 0
          /\ stats.total_moves = node
          /\ stats[Mover(node)].moves >= 1
          /\ queries = 3 * node
          /\ BothDefined => move_accuracy # None

\* ply 2, by White, drops White's evaluation by 1.5 pawns: a blunder anywhere else
C2_Witness ==
    /\ PlyDone /\ node = 2 /\ game.turn = "black"
    /\ args = DefaultThresholds
    /\ eval_before = Some(150) /\ eval_after = Some(0)
    /\ stats.total_moves = 2

(***************************************************************************)
(* C3.  A ply with an Unavailable evaluation (before or after) adds 1 to   *)
(* the mover's move count and to the global move count, leaves the         *)
(* mover's accuracy sum and count, every severity counter and the list of  *)
(* AnnotatedMoves as they were, and the driver goes on with the next ply   *)
(* without raising.                                                        *)
(***************************************************************************)
\* a step in which all three queries of the ply were answered and one of the
\* two evaluations is None
UnavailablePly ==
    /\ pc = "annotate"
    /\ queries' = queries + 3
    /\ raised' # "eval_after"
    /\ eval_before' = None \/ eval_after' = None

C3_UnavailablePlyCountedOnly ==
    [][ UnavailablePly =>
          LET m == Mover(node + 1)
              o == Opponent(m)
          IN  /\ pc' = "annotate" /\ raised' = "none" /\ node' = node + 1
              /\ stats'.total_moves = stats.total_moves + 1
              /\ stats'[m].moves = stats[m].moves + 1
              /\ stats'[m].total_accuracy = stats[m].total_accuracy
              /\ stats'[m].accuracy_count = stats[m].accuracy_count
              /\ stats'[m].nags = stats[m].nags
              /\ stats'[o] = stats[o]
              /\ annotated_moves' = annotated_moves
              /\ move_accuracy' = None
              /\ eval_change' = eval_change /\ annotation' = annotation ]_vars

\* ply 5 had no evaluation of its after-position, ply 4 had been scored
C3_Witness ==
    /\ PlyDone /\ node = 5
    /\ eval_before = Some(150) /\ eval_after = None
    /\ stats.total_moves = 5
    /\ stats[Mover(5)].accuracy_count = 2
    /\ stats[Mover(5)].moves = 3

(***************************************************************************)
(* C4.  Once the first ply is being processed the run reaches the end of   *)
(* the main line: no outcome of a single query (no usable score, or a      *)
(* failing query, in evaluate or in topMoves) stops it before the last     *)
(* ply.                                                                    *)
(***************************************************************************)
C4_RunReachesEndOfMainLine ==
    (queries > 0 /\ pc # "annotate") =>
        /\ raised \notin {"eval_before", "top_moves", "eval_after"}
        /\ queries = 3 * game.plies

(***************************************************************************)
(* C5.  Thresholds that violate 0 < inaccuracy < mistake < blunder abort   *)
(* the run with a failure before the oracle is queried and before any ply  *)
(* is processed; they never classify a move.                               *)
(***************************************************************************)
C5_InvalidThresholdsRejected ==
    ~ValidThresholds(args) =>
        /\ engine = "unopened"
        /\ queries = 0
        /\ stats.total_moves = 0
        /\ eval_change = NoChange
        /\ exit_code # Some(0)

(***************************************************************************)
(* C6.  A game whose main line has no moves aborts the run with a failure  *)
(* before the oracle connection is opened and before the driver starts;    *)
(* no report and no annotated game is written.                             *)
(***************************************************************************)
C6_EmptyGameRejected ==
    (game # NoGame /\ game.plies = 0) =>
        /\ engine = "unopened"
        /\ pc \notin {"annotate", "with_exit", "report"}
        /\ ~report_written
        /\ ~pgn_written
        /\ exit_code # Some(0)

(***************************************************************************)
(* C7.  The oracle connection is opened at most once per run; whenever it  *)
(* was opened it is closed in every terminal state, after a normal return  *)
(* of annotate_game and after any error raised while it was open; no       *)
(* query is issued outside the open-close window.                          *)
(***************************************************************************)
C7_EngineScoped ==
    /\ [](/\ engine_opens <= 1
          /\ (engine = "unopened") <=> (engine_opens = 0)
          /\ (pc = "exit" /\ engine_opens > 0) => engine = "closed"
          /\ pc \in {"report", "except"} => engine # "open")
    /\ [][ /\ queries' # queries => (engine = "open" /\ engine' = "open")
           /\ engine = "closed" => engine' = "closed" ]_vars

\* the run ended after a query failed while the engine was open
C7_Witness ==
    /\ pc = "exit" /\ raised = "eval_after"
    /\ engine = "closed" /\ engine_opens = 1
    /\ queries = 6

(***************************************************************************)
(* C8.  A player's move count grows by exactly one for each ply that       *)
(* player moves and never otherwise: in every state of the driver          *)
(* total_moves = white moves + black moves = number of plies taken up,     *)
(* and on completion total_moves is the length of the main line.           *)
(***************************************************************************)
C8_MoveCounts ==
    /\ stats.total_moves = stats.white.moves + stats.black.moves
    /\ pc = "annotate" =>
          /\ stats.total_moves = node
          /\ \A p \in Players :
                stats[p].moves = Cardinality({i \in 1..node : Mover(i) = p})
    /\ Returned => stats.total_moves = game.plies

\* a five-ply game that Black opens has been annotated to the end
C8_Witness ==
    /\ Returned /\ pc = "with_exit"
    /\ game = [plies |-> 5, turn |-> "black"]
    /\ stats.black.moves = 3 /\ stats.white.moves = 2 /\ stats.total_moves = 5

(***************************************************************************)
(* C9.  For each player the accuracy sum and count change together or not  *)
(* at all: a ply adds its accuracy to the mover's sum and 1 to the         *)
(* mover's count exactly when both its evaluations are defined, warm-up    *)
(* plies included; so the count never exceeds the move count and the sum   *)
(* is 0 whenever the count is 0.                                           *)
(***************************************************************************)
C9_AccuracySumAndCount ==
    /\ [](\A p \in Players :
            /\ stats[p].accuracy_count <= stats[p].moves
            /\ stats[p].accuracy_count = 0 => stats[p].total_accuracy = 0)
    /\ [][ CompletesPly =>
             LET m == Mover(node + 1)
                 o == Opponent(m)
             IN  /\ stats'[o].total_accuracy = stats[o].total_accuracy
                 /\ stats'[o].accuracy_count = stats[o].accuracy_count
                 /\ IF eval_before' # None /\ eval_after' # None
                    THEN /\ move_accuracy' # None
                         /\ stats'[m].total_accuracy =
                              stats[m].total_accuracy + move_accuracy'.v
                         /\ stats'[m].accuracy_count = stats[m].accuracy_count + 1
                    ELSE /\ move_accuracy' = None
                         /\ stats'[m].total_accuracy = stats[m].total_accuracy
                         /\ stats'[m].accuracy_count = stats[m].accuracy_count ]_vars

\* a warm-up ply with both evaluations defined has been scored: White lost
\* 1.5 pawns on ply 1
C9_Witness ==
    /\ PlyDone /\ node = 1 /\ game.turn = "white"
    /\ eval_before = Some(150) /\ eval_after = Some(0)
    /\ move_accuracy # None
    /\ stats.white.accuracy_count = 1
    /\ stats.white.total_accuracy = move_accuracy.v
    /\ move_accuracy.v < 999999

(***************************************************************************)
(* C10.  Under thresholds with 0 < inaccuracy < mistake < blunder a swing  *)
(* gets exactly one severity: Blunder iff swing <= -blunder, Mistake iff   *)
(* -blunder < swing <= -mistake, Inaccuracy iff -mistake < swing <=        *)
(* -inaccuracy, None otherwise; a swing equal to a negated threshold gets  *)
(* the more severe category and a swing >= 0 is never flagged.             *)
(***************************************************************************)
C10_SeverityIntervals ==
    (Classified /\ ValidThresholds(args)) =>
        LET swing == Swing
            i == args.inaccuracy
            m == args.mistake
            b == args.blunder
        IN  /\ ThisPlyAnnotation = "??" <=> swing <= 0 - b
            /\ ThisPlyAnnotation = "?"  <=> (0 - b < swing /\ swing <= 0 - m)
            /\ ThisPlyAnnotation = "?!" <=> (0 - m < swing /\ swing <= 0 - i)
            /\ ThisPlyAnnotation = NoAnnotation <=> 0 - i < swing
            /\ swing >= 0 => ThisPlyAnnotation = NoAnnotation
            /\ swing = 0 - b => ThisPlyAnnotation = "??"
            /\ swing = 0 - m => ThisPlyAnnotation = "?"
            /\ swing = 0 - i => ThisPlyAnnotation = "?!"

(***************************************************************************)
(* C11.  Finalizing a player's statistics never divides by zero; the       *)
(* average accuracy is sum / count when the count is > 0 and the explicit  *)
(* undefined marker, not a number such as 0, when the count is 0; the      *)
(* error rate is 100 * errors / moves, or 0 when the move count is 0;      *)
(* this in the per-player section, the comparison and the quick summary.   *)
(***************************************************************************)
\* finalize(): the average, or the undefined marker
FinalAverage(ps) ==
    IF ps.accuracy_count > 0 THEN Some(ps.total_accuracy \div ps.accuracy_count) ELSE None

FinalErrorRate(ps) ==
    IF ps.moves > 0 THEN Some((1000000 * ErrorCount(ps)) \div ps.moves) ELSE Some(0)

C11_FinalizeNeverZeroNorDivides ==
    /\ raised \notin {"generate_report", "summary"}
    /\ report.made =>
         \A p \in Players :
            /\ report[p].average_accuracy = FinalAverage(stats[p])
            /\ report[p].error_rate \in {None, FinalErrorRate(stats[p])}
            /\ report.comparison.shown =>
                  /\ report.comparison[p].accuracy = FinalAverage(stats[p])
                  /\ report.comparison[p].error_rate = FinalErrorRate(stats[p])
            /\ summary.made => summary[p] = FinalAverage(stats[p])

(***************************************************************************)
(* calculate_move_accuracy called on its own, on a grid of win percents.   *)
(***************************************************************************)
WinSteps == 20
WinPercents == {(i * 1000000) \div WinSteps : i \in 0..WinSteps}

\* the driver is not running
DriverIdle ==
    /\ InitRun
    /\ input_pgn = "bare"
    /\ args = DefaultThresholds
    /\ eval_script = <<>>

InitAccuracy ==
    /\ DriverIdle
    /\ LexIdle
    /\ fn_name = "calculate_move_accuracy"
    /\ fn_args \in WinPercents \X WinPercents
    /\ fn_result = None

ApplyAccuracy ==
    /\ fn_name = "calculate_move_accuracy"
    /\ fn_result = None
    /\ fn_result' = Some(calculate_move_accuracy(fn_args[1], fn_args[2]))
    /\ UNCHANGED <<fn_name, fn_args>>
    /\ UNCHANGED <<main_vars, loop_vars, pc, raised, out_vars, tree_vars>>
    /\ UNCHANGED lex_vars

NextAccuracy == ApplyAccuracy

SpecAccuracy == InitAccuracy /\ [][NextAccuracy]_vars

AccuracyApplied == fn_name = "calculate_move_accuracy" /\ fn_result.some

\* max(0, win_percent_before - win_percent_after)
WinPercentLoss(a) == IF a[1] > a[2] THEN a[1] - a[2] ELSE 0

(***************************************************************************)
(* C12.  The accuracy of a move is within [0, 100]; an improving move      *)
(* (win percent after > before) gets exactly the accuracy of a zero-loss   *)
(* move; the accuracy is non-increasing as the loss grows; a loss of 100   *)
(* gives accuracy 0.                                                       *)
(***************************************************************************)
C12_AccuracyRangeFloorMonotone ==
    AccuracyApplied =>
        /\ fn_result.v >= 0 /\ fn_result.v <= 1000000
        /\ fn_args[2] > fn_args[1] =>
              fn_result.v = calculate_move_accuracy(fn_args[1], fn_args[1])
        /\ \A other \in WinPercents \X WinPercents :
              WinPercentLoss(other) >= WinPercentLoss(fn_args) =>
                 calculate_move_accuracy(other[1], other[2]) <= fn_result.v
        /\ WinPercentLoss(fn_args) >= 1000000 => fn_result.v = 0

\* an improving move has been given the zero-loss accuracy, 99.9999
C12_Witness ==
    /\ AccuracyApplied
    /\ fn_args[2] > fn_args[1]
    /\ fn_result.v = 999999

(***************************************************************************)
(* C13.  The swing used for classification and recorded in the             *)
(* AnnotatedMove is from the mover's perspective: after - before when      *)
(* White moves, before - after when Black moves; so a move by Black that   *)
(* lowers White's evaluation is never flagged, and a move by Black that    *)
(* raises White's evaluation by at least a threshold is flagged.           *)
(***************************************************************************)
C13_SwingFromMoverPerspective ==
    Classified =>
        /\ eval_change.some
        /\ eval_change.v.c = IF Mover(node) = "white"
                                THEN eval_after.v - eval_before.v
                                ELSE eval_before.v - eval_after.v
        /\ ThisPlyEntry =>
              annotated_moves[Len(annotated_moves)].eval_change = eval_change
        /\ (Mover(node) = "black" /\ eval_after.v < eval_before.v) =>
              ThisPlyAnnotation = NoAnnotation
        /\ (/\ Mover(node) = "black"
            /\ \E t \in {args.inaccuracy, args.mistake, args.blunder} :
                  eval_after.v - eval_before.v >= t) =>
              ThisPlyAnnotation # NoAnnotation

(***************************************************************************)
(* evaluate_position called on its own.  The engine reports a score        *)
(* relative to the side to move, "cp x" or "mate m" (mate 0: the side to   *)
(* move is checkmated); line 73 turns it to White's point of view          *)
(* (python-chess: PovScore.white() negates the score when Black is to      *)
(* move, and the negation of Mate(0) is MateGiven).                        *)
(***************************************************************************)
MaxMate == 3
MaxCpSteps == 10
RelativeScores ==
    {Cp(50 * c) : c \in (0 - MaxCpSteps)..MaxCpSteps}
       \cup {Mate(m) : m \in (0 - MaxMate)..MaxMate}

\* -score
NegateScore(score) ==
    IF score.kind = "cp" THEN Cp(0 - score.value)
    ELSE IF score.kind = "mategiven" THEN Mate(0)
    ELSE IF score.value = 0 THEN MateGiven
    ELSE Mate(0 - score.value)

\* info["score"].white()
PovWhite(relative, turn) == IF turn = "white" THEN relative ELSE NegateScore(relative)

InitEvaluate ==
    /\ DriverIdle
    /\ LexIdle
    /\ fn_name = "evaluate_position"
    /\ fn_args \in RelativeScores \X Players
    /\ fn_result = None

ApplyEvaluate ==
    /\ fn_name = "evaluate_position"
    /\ fn_result = None
    /\ fn_result' = Some(evaluate_position(PovWhite(fn_args[1], fn_args[2])))
    /\ UNCHANGED <<fn_name, fn_args>>
    /\ UNCHANGED <<main_vars, loop_vars, pc, raised, out_vars, tree_vars>>
    /\ UNCHANGED lex_vars

NextEvaluate == ApplyEvaluate

SpecEvaluate == InitEvaluate /\ [][NextEvaluate]_vars

\* the side that mates, for a mate score relative to the side to move
MatingSide(relative, turn) ==
    IF relative.value > 0 THEN turn ELSE Opponent(turn)

(***************************************************************************)
(* C14.  evaluate_position normalizes every score to White's perspective   *)
(* in pawns: a centipawn score c becomes c / 100, a forced mate becomes    *)
(* +100 when White is the mating side and -100 when Black is, for every    *)
(* mate distance including mate in 0; a mate score never gives a result    *)
(* outside [-100, 100].                                                    *)
(***************************************************************************)
C14_EvaluateNormalizesToWhite ==
    (fn_name = "evaluate_position" /\ fn_result.some) =>
        LET relative == fn_args[1]
            turn == fn_args[2]
            value == fn_result.v
        IN  /\ relative.kind = "cp" =>
                  value = Some(IF turn = "white" THEN relative.value
                                                 ELSE 0 - relative.value)
            /\ relative.kind = "mate" =>
                  /\ value = IF MatingSide(relative, turn) = "white"
                                THEN Some(10000) ELSE Some(0 - 10000)
                  /\ value.v >= 0 - 10000 /\ value.v <= 10000

(***************************************************************************)
(* C15.  In every state of the driver the number of AnnotatedMove entries  *)
(* equals the sum over both players of the Inaccuracy, Mistake and Blunder *)
(* counters; each entry has a severity other than None and belongs to the  *)
(* player whose counter was incremented for it; the entries are in the     *)
(* order of the plies of the main line.                                    *)
(***************************************************************************)
\* the entries of player p with severity n
EntriesOf(p, n) ==
    {i \in 1..Len(annotated_moves) :
        /\ annotated_moves[i].player = Capitalize(p)
        /\ annotated_moves[i].annotation # NoAnnotation
        /\ NagOf(annotated_moves[i].annotation) = n}

C15_EntriesMatchCounters ==
    /\ Len(annotated_moves) = SeverityCount("white") + SeverityCount("black")
    /\ \A i \in 1..Len(annotated_moves) :
          /\ annotated_moves[i].annotation \in {"?!", "?", "??"}
          /\ annotated_moves[i].move \in 1..game.plies
          /\ annotated_moves[i].player = Capitalize(Mover(annotated_moves[i].move))
    /\ \A p \in Players : \A n \in NAGS :
          stats[p].nags[n] = Cardinality(EntriesOf(p, n))
    /\ \A i \in 1..Len(annotated_moves) : \A j \in 1..Len(annotated_moves) :
          i < j => annotated_moves[i].move < annotated_moves[j].move

\* both players have an entry, White's before Black's
C15_Witness ==
    /\ Len(annotated_moves) = 2
    /\ annotated_moves[1].player = "White"
    /\ annotated_moves[2].player = "Black"
    /\ SeverityCount("white") = 1
    /\ SeverityCount("black") = 1

(***************************************************************************)
(* Runs on input games that carry comments, marks and variations.          *)
(***************************************************************************)
InitMarked ==
    /\ InitRun
    /\ NoCall
    /\ input_pgn \in InputMarks
    /\ args = DefaultThresholds
    /\ eval_script = <<>>

SpecMarked == InitMarked /\ [][Next]_vars

\* the marks an entry of annotated_moves gives ply i
MarksOf(i) ==
    {NagOf(annotated_moves[j].annotation) :
        j \in {e \in 1..Len(annotated_moves) : annotated_moves[e].move = i}}

\* annotate_game has returned normally
RunDone == pc \in {"with_exit", "report", "exit"} /\ raised = "none" /\ engine_opens = 1

(***************************************************************************)
(* C16.  The driver starts from a clean slate: before the first ply is     *)
(* processed every comment and annotation mark already on the input game   *)
(* is removed and every alternate variation is discarded, only the main    *)
(* line remains; after a run a move of the main line carries a mark if and *)
(* only if an AnnotatedMove was produced for it in this run, and it        *)
(* carries at most one mark.                                               *)
(***************************************************************************)
C16_CleanSlateThenOwnMarks ==
    /\ (pc = "popen" \/ (pc = "annotate" /\ node = 0)) =>
          \A k \in DOMAIN tree : tree[k] = BareNode
    /\ (pc = "popen" \/ engine_opens = 1) =>
          \A k \in DOMAIN tree : ~tree[k].comment /\ tree[k].side = 0
    /\ pc = "annotate" =>
          \A k \in DOMAIN tree : k > node + 1 => tree[k].nags = {}
    /\ RunDone =>
          /\ Len(tree) = game.plies + 1
          /\ tree[1].nags = {}
          /\ \A i \in 1..game.plies :
                /\ tree[i + 1].nags = MarksOf(i)
                /\ Cardinality(tree[i + 1].nags) <= 1

\* the annotated game of a marked input has been written: its fifth move
\* carries the mark of this run, the moves before it none
C16_Witness ==
    /\ pgn_written
    /\ input_pgn = "marked"
    /\ game.plies = 5
    /\ Len(annotated_moves) = 1
    /\ annotated_moves[1].move = 5
    /\ tree[6].nags = {NagOf(annotated_moves[1].annotation)}
    /\ \A k \in 1..5 : tree[k] = BareNode

(***************************************************************************)
(* lexicon.py.  A file is a sequence of characters; the characters that    *)
(* matter are the line ends, "CR" and "LF"; the rest of a line is one      *)
(* token: "---" (a frontmatter delimiter), "lexicon:", or any other text.  *)
(***************************************************************************)
MaxEntries == 2

\* the lines of the markdown files, and the line ends they are saved with
FileLines ==
    { <<"---", "title", "---", "body">>,
      <<"---", "title", "---">>,
      <<"---", "title", "---", "", "body">>,
      <<"---", "title", "lexicon:", "---", "body">>,
      <<"---", "title", "", "lexicon:", "", "more", "---", "body">>,
      <<"---", "", "lexicon:", "", "---", "body">>,
      <<"---", "title">>,
      <<"body">> }
LineEnds == { <<"LF">>, <<"CR", "LF">>, <<"CR">> }

RECURSIVE FileOf(_, _)
FileOf(lines, line_end) ==
    IF lines = <<>> THEN <<>>
    ELSE (IF Head(lines) = "" THEN <<>> ELSE <<Head(lines)>>)
            \o line_end \o FileOf(Tail(lines), line_end)

\* open(path, 'r', encoding='utf-8').read(): text mode turns every line end,
\* \r\n, \r or \n, into \n
RECURSIVE TextRead(_)
TextRead(b) ==
    IF b = <<>> THEN <<>>
    ELSE IF Head(b) = "CR"
    THEN <<"LF">> \o TextRead(IF Len(b) >= 2 /\ b[2] = "LF"
                                 THEN SubSeq(b, 3, Len(b)) ELSE Tail(b))
    ELSE <<Head(b)>> \o TextRead(Tail(b))

\* open(path, 'w', encoding='utf-8').write(text): \n is written as os.linesep,
\* which is \n on macOS and Linux
TextWrite(text) == text

\* the number of consecutive "LF" of text from index i
RECURSIVE LeadingLFs(_, _)
LeadingLFs(text, i) ==
    IF i <= Len(text) /\ text[i] = "LF" THEN 1 + LeadingLFs(text, i + 1) ELSE 0

SeqMax(S) == CHOOSE x \in S : \A y \in S : y <= x
SeqMin(S) == CHOOSE x \in S : \A y \in S : x <= y

\* lines 56-63: re.match(r'^---\s*\n(.*?)\n---\s*\n?(.*)', content, re.DOTALL).
\* The first \s* is greedy over the line ends after the opening ---, leaving
\* one for \n; (.*?) stops at the first "\n---"; the second \s* takes every
\* line end after the closing ---.
get_frontmatter_and_content(content) ==
    LET k == LeadingLFs(content, 2)
        Closings(s) == {j \in s..(Len(content) - 1) :
                           content[j] = "LF" /\ content[j + 1] = "---"}
        starts == IF content # <<>> /\ content[1] = "---"
                  THEN {s \in 3..(k + 2) : Closings(s) # {}}
                  ELSE {}
    IN  IF starts = {}
        THEN [frontmatter |-> NoText, content |-> content]
        ELSE LET s == SeqMax(starts)
                 j == SeqMin(Closings(s))
                 r == j + 2 + LeadingLFs(content, j + 2)
             IN  [frontmatter |-> [some |-> TRUE, v |-> SubSeq(content, s, j - 1)],
                  content |-> SubSeq(content, r, Len(content))]

\* the terms typed: with or without a stress mark
TermInputs == {"mot", "mo*t"}

\* lines 103-109 and build_entry (69-73): the entry text of a term
build_entry(term_input) ==
    IF term_input = "mo*t"
    THEN "- term: mot definition: d stressed: mo*t"
    ELSE "- term: mot definition: d stressed: mot"

\* "\n".join(new_entries)
RECURSIVE JoinLF(_)
JoinLF(entries) ==
    IF entries = <<>> THEN <<>>
    ELSE IF Len(entries) = 1 THEN entries
    ELSE <<Head(entries), "LF">> \o JoinLF(Tail(entries))

\* the number of consecutive "LF" of text that end at index i
RECURSIVE TrailingLFs(_, _)
TrailingLFs(text, i) ==
    IF i >= 1 /\ text[i] = "LF" THEN 1 + TrailingLFs(text, i - 1) ELSE 0

\* lines 75-90: under the first line "lexicon:" when there is one (79-81),
\* else a new lexicon section at the end (88-90); a list after text on the
\* lexicon: line itself (83-87) is not among the files.
\* Line 80 replaces the first match of ^\s*lexicon:\s*$ (MULTILINE), and \s
\* matches a line end: the match starts at the first line start from which
\* only line ends lead to lexicon:, and runs over the line ends after it up
\* to the last one that still has a line end, or the end of the text, behind.
insert_into_frontmatter(frontmatter, entries) ==
    LET n  == Len(frontmatter)
        at == {i \in 1..n :
                  /\ frontmatter[i] = "lexicon:"
                  /\ i = 1 \/ frontmatter[i - 1] = "LF"
                  /\ i = n \/ frontmatter[i + 1] = "LF"}
    IN  IF at # {}
        THEN LET i     == SeqMin(at)
                 a     == TrailingLFs(frontmatter, i - 1)
                 b     == LeadingLFs(frontmatter, i + 1)
                 start == IF i - a = 1 THEN 1 ELSE i - a + 1
                 end   == IF i + b = n THEN n ELSE i + b - 1
             IN  SubSeq(frontmatter, 1, start - 1)
                    \o <<"lexicon:", "LF">> \o JoinLF(entries)
                    \o SubSeq(frontmatter, end + 1, n)
        ELSE frontmatter
                \o (IF frontmatter # <<>> /\ frontmatter[Len(frontmatter)] = "LF"
                    THEN <<>> ELSE <<"LF">>)
                \o <<"lexicon:", "LF">> \o JoinLF(entries)

\* the other program is not running
AnalyzerIdle ==
    /\ DriverIdle
    /\ fn_name = "none"
    /\ fn_args = <<>>
    /\ fn_result = None

\* main (127-141) has found the file; add_lexicon_entries is entered
InitLexicon ==
    /\ AnalyzerIdle
    /\ lex_pc = "read"
    /\ md_file \in {FileOf(lines, e) : lines \in FileLines, e \in LineEnds}
    /\ md_original = md_file
    /\ bak_file = NoFile
    /\ frontmatter_text = NoText
    /\ remaining_content = <<>>
    /\ new_entries = <<>>

analyzer_vars == <<main_vars, loop_vars, pc, raised, out_vars, tree_vars, fn_vars>>

\* lines 93-96
LexRead ==
    /\ lex_pc = "read"
    /\ LET parsed == get_frontmatter_and_content(TextRead(md_file))
       IN  /\ frontmatter_text' = parsed.frontmatter
           /\ remaining_content' = parsed.content
           /\ lex_pc' = IF parsed.frontmatter.some THEN "input" ELSE "done"
    /\ UNCHANGED <<md_file, md_original, bak_file, new_entries>>
    /\ UNCHANGED analyzer_vars

\* lines 99-111: a term is typed, its entry is built and appended
LexEnterTerm ==
    /\ lex_pc = "input"
    /\ Len(new_entries) < MaxEntries
    /\ \E term_input \in TermInputs :
          new_entries' = Append(new_entries, build_entry(term_input))
    /\ UNCHANGED <<lex_pc, md_file, md_original, bak_file, frontmatter_text,
                   remaining_content>>
    /\ UNCHANGED analyzer_vars

\* lines 100-102 and 112-114: a blank term ends the loop; with no entry the
\* function returns
LexBlankTerm ==
    /\ lex_pc = "input"
    /\ lex_pc' = IF new_entries = <<>> THEN "done" ELSE "backup"
    /\ UNCHANGED <<md_file, md_original, bak_file, frontmatter_text,
                   remaining_content, new_entries>>
    /\ UNCHANGED analyzer_vars

\* lines 117-120: the backup is the file read and written in text mode;
\* opening the backup for writing can fail, which ends the program
LexBackup ==
    /\ lex_pc = "backup"
    /\ \E ok \in BOOLEAN :
          IF ok
          THEN /\ bak_file' = [exists |-> TRUE, content |-> TextWrite(TextRead(md_file))]
               /\ lex_pc' = "write"
          ELSE /\ bak_file' = bak_file
               /\ lex_pc' = "failed"
    /\ UNCHANGED <<md_file, md_original, frontmatter_text, remaining_content,
                   new_entries>>
    /\ UNCHANGED analyzer_vars

\* lines 115 and 122-123
LexWrite ==
    /\ lex_pc = "write"
    /\ md_file' = TextWrite(<<"---", "LF">>
                     \o insert_into_frontmatter(frontmatter_text.v, new_entries)
                     \o <<"LF", "---", "LF">> \o remaining_content)
    /\ lex_pc' = "done"
    /\ UNCHANGED <<md_original, bak_file, frontmatter_text, remaining_content,
                   new_entries>>
    /\ UNCHANGED analyzer_vars

NextLexicon ==
    \/ LexRead
    \/ LexEnterTerm
    \/ LexBlankTerm
    \/ LexBackup
    \/ LexWrite

SpecLexicon == InitLexicon /\ [][NextLexicon]_vars

(***************************************************************************)
(* C17.  add_lexicon_entries overwrites the markdown file only after it    *)
(* has written <file>.bak holding exactly the file's original content;     *)
(* when no entry is entered, or the file has no frontmatter, the file is   *)
(* left unchanged and no backup is created.                                *)
(***************************************************************************)
C17_BackupHoldsOriginal ==
    /\ md_file # md_original =>
          /\ bak_file.exists
          /\ bak_file.content = md_original
    /\ (lex_pc = "done" /\ (new_entries = <<>> \/ ~frontmatter_text.some)) =>
          /\ md_file = md_original
          /\ ~bak_file.exists

=============================================================================
